---- MODULE Spec2Model ----
(***************************************************************************)
(* The per-guild music player of sz-hong/discord-bot-python:               *)
(* utils/player.py (Song, MusicPlayer, PlayerManager), the commands of     *)
(* cogs/music.py that drive it and the auto-leave handler of bot.py.       *)
(*                                                                         *)
(* One guild is modelled.  The asyncio event loop runs one coroutine at a  *)
(* time and switches only at an await, so every action below is the code   *)
(* between two awaits of one coroutine.                                    *)
(***************************************************************************)
EXTENDS Integers, Sequences, FiniteSets, TLC

VARIABLES
    players,     \* MusicPlayer instances created for the guild, by creation order
    reg,         \* PlayerManager.players[guild.id]: index of the registered instance
    vc,          \* guild.voice_client and the audio player it holds
    tasks,       \* play_next coroutines scheduled or suspended at an await
    pending,     \* /play commands suspended in YTDLSource.from_url
    stopping,    \* the instance whose stop() is suspended in disconnect(), or 0
    world,       \* what the outside offers: the URLs users play, the ids searches
                 \* return, and ai_recommender.enabled; fixed when the process starts
    last,        \* the last method call that returned a value, and that value
    expect,      \* the song previous() took from history, until the next play_next run
    played,      \* the songs play_next selected, in order (kept by SpecLoopQueue only)
    away         \* the voice client of the other guild (used by SpecRooms only)

vars == <<players, reg, vc, tasks, pending, stopping, world, last, expect, played, away>>

----------------------------------------------------------------------------
(* Sizes.  The three configured capacities are scaled down from the values *)
(* the source sets (100, 50, 20); the others bound the environment.        *)

MAX_QUEUE_SIZE == 3
HISTORY_MAXLEN == 2
AUTOPLAY_MAX_HISTORY == 1
MaxPlayers == 2
MaxTasks == 2
MaxPending == 1
MaxRecs == 2
MaxResults == 2
MaxPlays == 7
MaxRacing == 2
MaxQueries == 6

DEFAULT_VOLUME == 50
DESIRED_COUNT == 5

----------------------------------------------------------------------------
(* Songs.  A URL is <<site, id>>; only YouTube URLs carry a video id.      *)

NoId == 0
\* stream_url is "" (empty) or "data" (the stream URL yt-dlp returned to /play)
NoSong == [url |-> <<"none", 0>>, stream_url |-> "", requester |-> "none"]
Song(url, stream_url, requester) == [url |-> url, stream_url |-> stream_url, requester |-> requester]

\* queue0: the songs queued when the observation of a QUEUE-loop run starts
World(urls, ids, ai) == [urls |-> urls, ids |-> ids, ai |-> ai, queue0 |-> <<>>]

_extract_video_id(url) == IF url[1] = "yt" THEN url[2] ELSE NoId

----------------------------------------------------------------------------
(* collections.deque(maxlen = n)                                           *)

\* a list in place of the bounded deque
append_list(q, x, n) == Append(q, x)

\* a bounded list that refuses the new element when it is full
append_keep_old(q, x, n) == IF Len(q) >= n THEN q ELSE Append(q, x)

append(q, x, n) == IF Len(q) >= n THEN Append(Tail(q), x) ELSE Append(q, x)

appendleft(q, x, n) == IF Len(q) >= n THEN <<x>> \o SubSeq(q, 1, n - 1) ELSE <<x>> \o q

Range(s) == {s[i] : i \in 1..Len(s)}

Count(s, x) == Cardinality({i \in 1..Len(s) : s[i] = x})

SameMultiset(s, t) == Len(s) = Len(t) /\ \A x \in Range(s) \cup Range(t) : Count(s, x) = Count(t, x)

Perms(n) == {f \in [1..n -> 1..n] : \A i, j \in 1..n : f[i] = f[j] => i = j}

Take(s, n) == SubSeq(s, 1, IF Len(s) < n THEN Len(s) ELSE n)

----------------------------------------------------------------------------
(* MusicPlayer                                                             *)

InitPlayer ==
    [queue |-> <<>>, history |-> <<>>, current |-> NoSong, volume |-> DEFAULT_VOLUME,
     loop_mode |-> 0, is_playing |-> FALSE, autoplay |-> TRUE, autoplay_history |-> {}]

\* add_to_queue that puts the song at the front of the queue
add_to_queue_front(pl, song) ==
    LET q == appendleft(pl.queue, song, MAX_QUEUE_SIZE)
    IN  [pl |-> [pl EXCEPT !.queue = q], ret |-> Len(q), ok |-> TRUE]

\* ok: the method has no failure path, it always returns a position
add_to_queue(pl, song) ==
    LET q == append(pl.queue, song, MAX_QUEUE_SIZE)
    IN  [pl |-> [pl EXCEPT !.queue = q], ret |-> Len(q), ok |-> TRUE]

clear_queue(pl) == [pl EXCEPT !.queue = <<>>]

\* skip() that takes the next song from the queue itself
skip_advance(pl, sinkPlaying) ==
    [pl |-> IF pl.queue # <<>> THEN [pl EXCEPT !.current = Head(pl.queue), !.queue = Tail(pl.queue)] ELSE pl,
     stop |-> sinkPlaying]

\* sinkPlaying: voice_client and voice_client.is_playing().  stop: voice_client.stop() is called.
skip(pl, sinkPlaying) == [pl |-> pl, stop |-> sinkPlaying]

\* previous() that also refuses when nothing is current
previous_needs_current(pl, sinkPlaying) ==
    IF pl.history = <<>> \/ pl.current = NoSong
    THEN [pl |-> pl, ret |-> FALSE, stop |-> FALSE]
    ELSE [pl |-> [pl EXCEPT !.queue = appendleft(appendleft(pl.queue, pl.current, MAX_QUEUE_SIZE),
                                                   pl.history[Len(pl.history)], MAX_QUEUE_SIZE),
                            !.history = SubSeq(pl.history, 1, Len(pl.history) - 1)],
          ret |-> TRUE, stop |-> sinkPlaying]

previous(pl, sinkPlaying) ==
    IF pl.history = <<>>
    THEN [pl |-> pl, ret |-> FALSE, stop |-> FALSE]
    ELSE LET q1 == IF pl.current # NoSong
                   THEN appendleft(pl.queue, pl.current, MAX_QUEUE_SIZE)
                   ELSE pl.queue
             prev_song == pl.history[Len(pl.history)]
             h == SubSeq(pl.history, 1, Len(pl.history) - 1)
         IN  [pl |-> [pl EXCEPT !.queue = appendleft(q1, prev_song, MAX_QUEUE_SIZE), !.history = h],
              ret |-> TRUE, stop |-> sinkPlaying]

\* random.choices in place of random.shuffle: songs drawn with replacement
shuffle_choices(pl) ==
    {[pl EXCEPT !.queue = [i \in 1..Len(pl.queue) |-> pl.queue[f[i]]]] :
        f \in [1..Len(pl.queue) -> 1..Len(pl.queue)]}

\* random.shuffle: any permutation of the list, rebuilt as a bounded deque
shuffle(pl) ==
    {[pl EXCEPT !.queue = Take([i \in 1..Len(pl.queue) |-> pl.queue[f[i]]], MAX_QUEUE_SIZE)] :
        f \in Perms(Len(pl.queue))}

\* stop() that flips the autoplay flag as it clears
stop_clear_toggle(pl) ==
    [pl EXCEPT !.queue = <<>>, !.history = <<>>, !.autoplay_history = {},
               !.current = NoSong, !.is_playing = FALSE, !.loop_mode = 0,
               !.autoplay = ~pl.autoplay]

\* stop() that forgets to reset is_playing
stop_clear_keeps_flag(pl) ==
    [pl EXCEPT !.queue = <<>>, !.history = <<>>, !.autoplay_history = {},
               !.current = NoSong, !.loop_mode = 0]

\* the assignments of stop() before it touches the voice client
stop_clear(pl) ==
    [pl EXCEPT !.queue = <<>>, !.history = <<>>, !.autoplay_history = {},
               !.current = NoSong, !.is_playing = FALSE, !.loop_mode = 0]

\* stop(): the assignments, then voice_client.stop() and disconnect() when a voice client exists.
\* conn is "up", "closing" (disconnect() under way) or "none" (guild.voice_client is None).
stop_call(pl, v) ==
    [pl |-> stop_clear(pl),
     vc |-> IF v.conn = "none" THEN v
            ELSE [conn |-> "none", state |-> "idle", song |-> NoSong, owner |-> 0,
                  gain |-> DEFAULT_VOLUME, stream |-> ""],
     fired |-> v.conn # "none" /\ v.state # "idle",
     raised |-> FALSE]

----------------------------------------------------------------------------
(* play_next, from its first line to its first await.  An outcome is the   *)
(* player after it, where the coroutine is suspended (pc) and its locals.  *)

Outcome(pl, pc, song, batch) == [pl |-> pl, pc |-> pc, song |-> song, batch |-> batch]

\* lines 384-393: the finished song goes to history and its id to autoplay_history;
\* set.pop() removes an arbitrary element
record_history(pl) ==
    IF pl.current # NoSong /\ pl.loop_mode # 1
    THEN LET h == append(pl.history, pl.current, HISTORY_MAXLEN)
             vid == _extract_video_id(pl.current.url)
             ah == pl.autoplay_history \cup {vid}
         IN  IF vid = NoId THEN {[pl EXCEPT !.history = h]}
             ELSE IF Cardinality(ah) > AUTOPLAY_MAX_HISTORY
             THEN {[pl EXCEPT !.history = h, !.autoplay_history = ah \ {x}] : x \in ah}
             ELSE {[pl EXCEPT !.history = h, !.autoplay_history = ah]}
    ELSE {pl}

\* lines 427-438: the chosen song becomes current; without a voice client play_next returns
start_song(pl, song, hasVoice, batch) ==
    Outcome([pl EXCEPT !.current = song, !.is_playing = TRUE],
            IF hasVoice THEN "resolve" ELSE "done", song, batch)

end_playback(pl) ==
    Outcome([pl EXCEPT !.current = NoSong, !.is_playing = FALSE], "done", NoSong, <<>>)

\* play_next that looks at the queue before it looks at the TRACK loop
choose_next_queue_first(pl, hasVoice, ai) ==
    IF pl.queue # <<>>
    THEN LET q1 == Tail(pl.queue)
             q2 == IF pl.loop_mode = 2 /\ pl.current # NoSong
                   THEN append(q1, pl.current, MAX_QUEUE_SIZE)
                   ELSE q1
         IN  start_song([pl EXCEPT !.queue = q2], Head(pl.queue), hasVoice, <<>>)
    ELSE IF pl.loop_mode # 0 /\ pl.current # NoSong
    THEN start_song(pl, pl.current, hasVoice, <<>>)
    ELSE IF pl.autoplay /\ pl.current # NoSong
    THEN Outcome(pl, IF ai THEN "ai" ELSE "kw", NoSong, <<>>)
    ELSE end_playback(pl)

\* play_next that does not put the finished song back in QUEUE mode
choose_next_no_requeue(pl, hasVoice, ai) ==
    IF pl.loop_mode = 1 /\ pl.current # NoSong
    THEN start_song(pl, pl.current, hasVoice, <<>>)
    ELSE IF pl.queue # <<>>
    THEN start_song([pl EXCEPT !.queue = Tail(pl.queue)], Head(pl.queue), hasVoice, <<>>)
    ELSE IF pl.loop_mode = 2 /\ pl.current # NoSong
    THEN start_song(pl, pl.current, hasVoice, <<>>)
    ELSE IF pl.autoplay /\ pl.current # NoSong
    THEN Outcome(pl, IF ai THEN "ai" ELSE "kw", NoSong, <<>>)
    ELSE end_playback(pl)

\* play_next that asks autoplay before it replays the song of a QUEUE loop
choose_next_fill_first(pl, hasVoice, ai) ==
    IF pl.loop_mode = 1 /\ pl.current # NoSong
    THEN start_song(pl, pl.current, hasVoice, <<>>)
    ELSE IF pl.queue # <<>>
    THEN LET q1 == Tail(pl.queue)
             q2 == IF pl.loop_mode = 2 /\ pl.current # NoSong
                   THEN append(q1, pl.current, MAX_QUEUE_SIZE)
                   ELSE q1
         IN  start_song([pl EXCEPT !.queue = q2], Head(pl.queue), hasVoice, <<>>)
    ELSE IF pl.autoplay /\ pl.current # NoSong
    THEN Outcome(pl, IF ai THEN "ai" ELSE "kw", NoSong, <<>>)
    ELSE IF pl.loop_mode = 2 /\ pl.current # NoSong
    THEN start_song(pl, pl.current, hasVoice, <<>>)
    ELSE end_playback(pl)

\* lines 395-425
choose_next(pl, hasVoice, ai) ==
    IF pl.loop_mode = 1 /\ pl.current # NoSong
    THEN start_song(pl, pl.current, hasVoice, <<>>)
    ELSE IF pl.queue # <<>>
    THEN LET q1 == Tail(pl.queue)
             q2 == IF pl.loop_mode = 2 /\ pl.current # NoSong
                   THEN append(q1, pl.current, MAX_QUEUE_SIZE)
                   ELSE q1
         IN  start_song([pl EXCEPT !.queue = q2], Head(pl.queue), hasVoice, <<>>)
    ELSE IF pl.loop_mode = 2 /\ pl.current # NoSong
    THEN start_song(pl, pl.current, hasVoice, <<>>)
    ELSE IF pl.autoplay /\ pl.current # NoSong
    THEN Outcome(pl, IF ai THEN "ai" ELSE "kw", NoSong, <<>>)
    ELSE end_playback(pl)

play_next(pl, hasVoice, ai) == {choose_next(pl1, hasVoice, ai) : pl1 \in record_history(pl)}

----------------------------------------------------------------------------
(* _get_autoplay_songs and the lines of play_next that consume its result  *)

RECURSIVE extend(_, _, _)
extend(q, xs, n) == IF xs = <<>> THEN q ELSE extend(append(q, Head(xs), n), Tail(xs), n)

\* lines 276-290 and 311-324: a candidate is accepted when it has an id that is not in
\* autoplay_history, and its id is added at once
\* _get_autoplay_songs that builds its songs the way /play does
accept_as_user(st, vid) ==
    IF vid # NoId /\ vid \notin st.seen
    THEN [seen |-> st.seen \cup {vid}, batch |-> Append(st.batch, Song(<<"yt", vid>>, "data", "user"))]
    ELSE st

accept(st, vid) ==
    IF vid # NoId /\ vid \notin st.seen
    THEN [seen |-> st.seen \cup {vid}, batch |-> Append(st.batch, Song(<<"yt", vid>>, "", "none"))]
    ELSE st

RECURSIVE accept_all(_, _)
accept_all(st, ids) == IF ids = <<>> THEN st ELSE accept_all(accept(st, Head(ids)), Tail(ids))

\* YTDLSource.search_similar_songs: the entries with an id outside exclude_ids
search_similar_songs(raw, exclude_ids) ==
    SelectSeq(raw, LAMBDA v : v # NoId /\ v \notin exclude_ids)

\* play_next that returns on an empty list without resetting current and is_playing
autoplay_return_keep(pl, batch, hasVoice) ==
    IF batch = <<>> THEN Outcome(pl, "done", NoSong, <<>>)
    ELSE LET q == extend(pl.queue, batch, MAX_QUEUE_SIZE)
         IN  start_song([pl EXCEPT !.queue = Tail(q)], Head(q), hasVoice, batch)

\* play_next that takes the first suggestion as current and leaves it in the queue too
autoplay_return_nopop(pl, batch, hasVoice) ==
    IF batch = <<>> THEN end_playback(pl)
    ELSE LET q == extend(pl.queue, batch, MAX_QUEUE_SIZE)
         IN  start_song([pl EXCEPT !.queue = q], Head(q), hasVoice, batch)

\* play_next lines 411-428 on the list _get_autoplay_songs returned
autoplay_return(pl, batch, hasVoice) ==
    IF batch = <<>> THEN end_playback(pl)
    ELSE LET q == extend(pl.queue, batch, MAX_QUEUE_SIZE)
         IN  start_song([pl EXCEPT !.queue = Tail(q)], Head(q), hasVoice, batch)

\* lines 306-331 and 410-428: the keyword search returned raw; live as in Suspended
keyword_return(pl, batch, live, raw, hasVoice) ==
    LET related == search_similar_songs(raw, IF live THEN pl.autoplay_history ELSE {})
        a == accept_all([seen |-> pl.autoplay_history, batch |-> batch], Take(related, DESIRED_COUNT))
    IN  autoplay_return([pl EXCEPT !.autoplay_history = a.seen], a.batch, hasVoice)

\* line 300: self.current.title raises when stop() has reset current, and the except
\* clause of line 333 returns []
keyword_tier(pl, hasVoice) ==
    IF pl.current = NoSong THEN autoplay_return(pl, <<>>, hasVoice)
    ELSE Outcome(pl, "kw", NoSong, <<>>)

----------------------------------------------------------------------------
(* The voice client (discord.VoiceClient): play, stop, pause, resume and   *)
(* the after callback, which schedules play_next of the player that        *)
(* started the audio (run_coroutine_threadsafe, line 452).                 *)

\* gain: the volume of the audio source the voice client holds, as a percentage;
\* stream: the stream URL that source reads ("" when there is no source)
NoVoice ==
    [conn |-> "none", state |-> "idle", song |-> NoSong, owner |-> 0, gain |-> DEFAULT_VOLUME,
     stream |-> ""]

\* a play_next that plays the stream URL stored in the song
create_source_stored(song, data) == song.stream_url

\* YTDLSource.create_source: the source reads data['url'], the stream URL of the data
\* that play_next has just got from from_url ("fresh" stands for that URL)
create_source(song, data) == data

hasVoice == vc.conn # "none"
sinkPlaying == vc.conn = "up" /\ vc.state = "playing"

\* VoiceClient.stop(): the audio player ends and its after callback fires
vc_stop(v) == [v EXCEPT !.state = "idle", !.song = NoSong, !.gain = DEFAULT_VOLUME, !.stream = ""]
fires(v) == v.state # "idle"

FreeTask ==
    [pc |-> "free", p |-> 0, song |-> NoSong, batch |-> <<>>, nrec |-> 0, ex0 |-> {}, live |-> FALSE,
     stale |-> FALSE]
NewTask(p) == [FreeTask EXCEPT !.pc = "start", !.p = p]

HasFree(ts) == \E t \in 1..MaxTasks : ts[t].pc = "free"
FirstFree(ts) == CHOOSE t \in 1..MaxTasks : ts[t].pc = "free" /\ \A u \in 1..(t - 1) : ts[u].pc # "free"
\* an after callback that schedules nothing
Spawn_nothing(ts, p) == ts

Spawn(ts, p) == [ts EXCEPT ![FirstFree(ts)] = NewTask(p)]

\* the coroutine after an outcome: ended, or suspended with its locals;
\* ex is autoplay_history as it was when _get_autoplay_songs was entered,
\* st whether stop() has run on the player since the coroutine was suspended.
\* live: search_similar_songs was handed the set object itself (line 58: an empty
\* set is replaced by a new one), so its filter reads the set as it is on return
Suspended(p, o, ex, st) ==
    IF o.pc = "done" THEN FreeTask
    ELSE [pc |-> o.pc, p |-> p, song |-> o.song, batch |-> o.batch, nrec |-> 0, ex0 |-> ex,
          live |-> o.pc = "kw" /\ o.pl.autoplay_history # {},
          stale |-> st]

\* stop() ran on player p: the coroutines of p that are suspended at an await are marked
InFlightPcs == {"resolve", "ai", "search", "kw"}
MarkStale(ts, p) ==
    [t \in 1..MaxTasks |->
        IF ts[t].p = p /\ ts[t].pc \in InFlightPcs THEN [ts[t] EXCEPT !.stale = TRUE] ELSE ts[t]]

Entered(o) == IF o.pc \in {"ai", "kw"} THEN o.pl.autoplay_history ELSE {}

\* the last method call the claims observe: which method on which player, the position
\* or success it returned, and what held when it was called (len0: the queue's length;
\* for play_next, ok: a song was current, pos: the length of history)
Call(op, p, pos, ok, len0) == [op |-> op, p |-> p, pos |-> pos, ok |-> ok, len0 |-> len0]
NoCall == Call("none", 0, 0, FALSE, 0)

----------------------------------------------------------------------------
InitWith(w) ==
    /\ players = [p \in 1..MaxPlayers |-> InitPlayer]
    /\ reg = 1
    /\ vc = NoVoice
    /\ tasks = [t \in 1..MaxTasks |-> FreeTask]
    /\ pending = {}
    /\ stopping = 0
    /\ world = w
    /\ last = NoCall
    /\ expect = NoSong
    /\ played = <<>>
    /\ away = NoVoice

----------------------------------------------------------------------------
(* play_next coroutines                                                    *)

\* a run of play_next from its first line (a scheduled coroutine starts, or the
\* recursive call after a failed attempt) up to its first await
RunPlayNext(t, p) ==
    \E o \in play_next(players[p], hasVoice, world.ai) :
        /\ players' = [players EXCEPT ![p] = o.pl]
        /\ tasks' = [tasks EXCEPT ![t] = Suspended(p, o, Entered(o), FALSE)]
        /\ expect' = IF p = reg THEN NoSong ELSE expect
        /\ last' = Call("play_next", p, Len(players[p].history), players[p].current # NoSong,
                        Len(players[p].queue))

\* what _get_autoplay_songs returned reaches play_next (lines 410-428)
Resume(t, p, o) ==
    /\ players' = [players EXCEPT ![p] = o.pl]
    /\ tasks' = [tasks EXCEPT ![t] = Suspended(p, o, tasks[t].ex0, tasks[t].stale)]
    /\ last' = IF o.pc = "kw" THEN NoCall
               ELSE Call("_get_autoplay_songs", p, Len(o.batch), TRUE, Len(players[p].queue))

TaskStartA(t) ==
    /\ tasks[t].pc = "start"
    /\ RunPlayNext(t, tasks[t].p)
    /\ UNCHANGED <<reg, vc, pending, stopping, world, away>>

\* ai_recommender.get_recommendations returns n queries, at most k, or none: its
\* except clauses (ai_recommender.py lines 167-182) turn a failure of the model call
\* or of the parsing into [], and the Spotify helpers catch their own failures
AiReturnUpTo(t, k) ==
    /\ tasks[t].pc = "ai"
    /\ LET p == tasks[t].p
           pl == players[p]
       IN  \/ Resume(t, p, keyword_tier(pl, hasVoice))
           \/ \E n \in 1..k :
                /\ tasks' = [tasks EXCEPT ![t].pc = "search", ![t].nrec = n]
                /\ last' = NoCall
                /\ UNCHANGED players
    /\ UNCHANGED <<reg, vc, pending, stopping, world, away, expect>>

AiReturnA(t) == AiReturnUpTo(t, MaxRecs)

\* _search_youtube returns for one recommended query; vid is the id of its first entry
SearchReturnA(t) ==
    /\ tasks[t].pc = "search"
    /\ \E vid \in world.ids \cup {NoId} :
         LET p == tasks[t].p
             a == accept([seen |-> players[p].autoplay_history, batch |-> tasks[t].batch], vid)
             pl == [players[p] EXCEPT !.autoplay_history = a.seen]
         IN  IF tasks[t].nrec > 1
             THEN /\ players' = [players EXCEPT ![p] = pl]
                  /\ tasks' = [tasks EXCEPT ![t].batch = a.batch, ![t].nrec = @ - 1]
                  /\ last' = NoCall
             ELSE IF a.batch # <<>>
             THEN Resume(t, p, autoplay_return(pl, a.batch, hasVoice))
             ELSE Resume(t, p, keyword_tier(pl, hasVoice))
    /\ UNCHANGED <<reg, vc, pending, stopping, world, away, expect>>

RawResults == UNION {[1..n -> world.ids \cup {NoId}] : n \in 0..MaxResults}

\* YTDLSource.search_similar_songs returns (raw = <<>> also stands for its failure)
KeywordReturnA(t) ==
    /\ tasks[t].pc = "kw"
    /\ \E raw \in RawResults :
         LET p == tasks[t].p
         IN  Resume(t, p, keyword_return(players[p], tasks[t].batch, tasks[t].live, raw, hasVoice))
    /\ UNCHANGED <<reg, vc, pending, stopping, world, away, expect>>

\* YTDLSource.from_url returns data and voice_client.play accepts the source
CanPlay == vc.conn = "up" /\ vc.state # "playing"

ResolveOkA(t) ==
    /\ tasks[t].pc = "resolve"
    /\ CanPlay
    /\ vc' = [vc EXCEPT !.state = "playing", !.song = tasks[t].song, !.owner = tasks[t].p,
                         !.gain = players[tasks[t].p].volume,
                         !.stream = create_source(tasks[t].song, "fresh")]
    /\ tasks' = [tasks EXCEPT ![t] = FreeTask]
    /\ last' = NoCall
    /\ UNCHANGED <<players, reg, pending, stopping, world, away, expect>>

\* from_url returns nothing or raises, or voice_client.play raises (no voice client,
\* not connected, already playing): lines 440-443 and 458-462 call play_next again
ResolveFailA(t) ==
    /\ tasks[t].pc = "resolve"
    /\ RunPlayNext(t, tasks[t].p)
    /\ UNCHANGED <<reg, vc, pending, stopping, world, away>>

\* from_url returned data and voice_client.play raised (AttributeError without a voice
\* client, ClientException when it is not connected or is already playing): the except
\* clause of lines 458-462 calls play_next again
PlayRaisesA(t) ==
    /\ tasks[t].pc = "resolve"
    /\ ~CanPlay
    /\ RunPlayNext(t, tasks[t].p)
    /\ UNCHANGED <<reg, vc, pending, stopping, world, away>>

----------------------------------------------------------------------------
(* The audio player and the voice connection                               *)

\* the track ends (normally or with a playback error): after_playing schedules play_next
TrackEndA ==
    /\ sinkPlaying
    /\ HasFree(tasks)
    /\ vc' = vc_stop(vc)
    /\ tasks' = Spawn(tasks, vc.owner)
    /\ last' = NoCall
    /\ UNCHANGED <<players, reg, pending, stopping, world, away, expect>>

\* cogs/music.py pause and resume
Pause ==
    /\ sinkPlaying
    /\ vc' = [vc EXCEPT !.state = "paused"]
    /\ last' = NoCall
    /\ UNCHANGED <<players, reg, tasks, pending, stopping, world, away, expect, played>>

Resume_ ==
    /\ vc.conn = "up" /\ vc.state = "paused"
    /\ vc' = [vc EXCEPT !.state = "playing"]
    /\ last' = NoCall
    /\ UNCHANGED <<players, reg, tasks, pending, stopping, world, away, expect, played>>

\* bot.py on_voice_state_update: the bot is alone in the channel and disconnects
AutoLeave ==
    /\ vc.conn = "up"
    /\ fires(vc) => HasFree(tasks)
    /\ vc' = [vc_stop(vc) EXCEPT !.conn = "closing"]
    /\ tasks' = IF fires(vc) THEN Spawn(tasks, vc.owner) ELSE tasks
    /\ last' = NoCall
    /\ UNCHANGED <<players, reg, pending, stopping, world, away, expect, played>>

\* a stop command that leaves the player registered
remove_player_keep(r) == r

\* PlayerManager.remove_player deletes the guild's entry, and the get_player of the next
\* command creates a MusicPlayer: the next instance, still as __init__ leaves it
remove_player(r) == r + 1

\* disconnect() completes: guild.voice_client is None; a stop command suspended in it
\* goes on to remove_player, and the next get_player creates a new MusicPlayer
CloseFinish ==
    /\ vc.conn = "closing"
    /\ vc' = NoVoice
    /\ reg' = IF stopping # 0 THEN remove_player(reg) ELSE reg
    /\ stopping' = 0
    /\ last' = NoCall
    /\ UNCHANGED <<players, tasks, pending, world, away, expect, played>>

----------------------------------------------------------------------------
(* The commands of cogs/music.py, on the registered player                 *)

\* n: the place of a command among those of its player that are suspended in
\* from_url, in the order they were issued (1 is the oldest)
IssueNo(pd, p) == Cardinality({c \in pd : c.p = p}) + 1

\* command c has left from_url
Leave(pd, c) == {IF d.p = c.p /\ d.n > c.n THEN [d EXCEPT !.n = @ - 1] ELSE d : d \in pd \ {c}}

\* play, up to its await of from_url, with at most k commands suspended there:
\* get_player is called before the await, and _ensure_voice connects when there is
\* no voice client
PlayStartUpTo(k) ==
    /\ Cardinality(pending) < k
    /\ \E u \in world.urls : pending' = pending \cup {[p |-> reg, url |-> u, n |-> IssueNo(pending, reg)]}
    /\ vc' = IF vc.conn = "none" THEN [NoVoice EXCEPT !.conn = "up"] ELSE vc
    /\ last' = NoCall
    /\ expect' = NoSong
    /\ UNCHANGED <<players, reg, tasks, stopping, world, away, played>>

PlayStart == PlayStartUpTo(MaxPending)

\* from_url raised or returned nothing: the command reports the failure
PlayFailed ==
    /\ \E c \in pending : pending' = Leave(pending, c)
    /\ last' = NoCall
    /\ UNCHANGED <<players, reg, vc, tasks, stopping, world, away, expect, played>>

\* from_url returned: the song is enqueued, and play_next is run when nothing is playing
PlayResolvedA(c) ==
    /\ c \in pending
    /\ pending' = Leave(pending, c)
    /\ LET r == add_to_queue(players[c.p], Song(c.url, "data", "user"))
       IN  IF players[c.p].is_playing
           THEN /\ players' = [players EXCEPT ![c.p] = r.pl]
                /\ last' = Call("add_to_queue", c.p, r.ret, r.ok, Len(players[c.p].queue))
                /\ UNCHANGED tasks
           ELSE \E o \in play_next(r.pl, hasVoice, world.ai) :
                /\ o.pc # "done" => HasFree(tasks)
                /\ players' = [players EXCEPT ![c.p] = o.pl]
                /\ tasks' = IF o.pc = "done" THEN tasks
                            ELSE [tasks EXCEPT ![FirstFree(tasks)] = Suspended(c.p, o, Entered(o), FALSE)]
                /\ last' = Call("play", c.p, r.ret, r.ok, Len(players[c.p].queue))
    /\ expect' = IF c.p = reg THEN NoSong ELSE expect
    /\ UNCHANGED <<reg, vc, stopping, world, away>>

\* skip: rejected without a current song; player.skip() stops the playing audio
Skip ==
    /\ players[reg].current # NoSong
    /\ LET r == skip(players[reg], sinkPlaying)
       IN  /\ r.stop => HasFree(tasks)
           /\ players' = [players EXCEPT ![reg] = r.pl]
           /\ vc' = IF r.stop THEN vc_stop(vc) ELSE vc
           /\ tasks' = IF r.stop THEN Spawn(tasks, vc.owner) ELSE tasks
           /\ last' = Call("skip", reg, 0, r.stop, Len(players[reg].queue))
    /\ expect' = NoSong
    /\ UNCHANGED <<reg, pending, stopping, world, away, played>>

\* player.previous(); the command tests history first and reports the same failure
Previous ==
    LET r == previous(players[reg], sinkPlaying)
    IN  /\ r.stop => HasFree(tasks)
        /\ players' = [players EXCEPT ![reg] = r.pl]
        /\ vc' = IF r.stop THEN vc_stop(vc) ELSE vc
        /\ tasks' = IF r.stop THEN Spawn(tasks, vc.owner) ELSE tasks
        /\ last' = Call("previous", reg, 0, r.ret, Len(players[reg].queue))
        /\ expect' = IF r.ret THEN players[reg].history[Len(players[reg].history)] ELSE expect
        /\ UNCHANGED <<reg, pending, stopping, world, away, played>>

\* shuffle: rejected for fewer than two queued songs, else player.shuffle()
Shuffle ==
    /\ IF Len(players[reg].queue) < 2 THEN UNCHANGED players
       ELSE \E pl \in shuffle(players[reg]) : players' = [players EXCEPT ![reg] = pl]
    /\ last' = Call("shuffle", reg, 0, Len(players[reg].queue) >= 2, Len(players[reg].queue))
    /\ expect' = NoSong
    /\ UNCHANGED <<reg, vc, tasks, pending, stopping, world, away, played>>

\* a loop command that steps the other way round
loop_back(pl) == [pl EXCEPT !.loop_mode = (pl.loop_mode + 2) % 3]

\* the loop command: 0 (off) -> 1 (track) -> 2 (queue) -> 0
loop(pl) == [pl EXCEPT !.loop_mode = (pl.loop_mode + 1) % 3]

Loop ==
    /\ players' = [players EXCEPT ![reg] = loop(players[reg])]
    /\ last' = NoCall
    /\ expect' = NoSong
    /\ UNCHANGED <<reg, vc, tasks, pending, stopping, world, away, played>>

Clear ==
    /\ players' = [players EXCEPT ![reg] = clear_queue(players[reg])]
    /\ last' = NoCall
    /\ expect' = NoSong
    /\ UNCHANGED <<reg, vc, tasks, pending, stopping, world, away, played>>

\* volume: a value outside 0..100 is rejected; else the player stores it (as a
\* percentage here, divided by 100 in the source) and the playing source takes it
Volumes == {-1, 0, 100, 101}

\* a volume command without the range test
volume_unchecked(pl, v) == [pl |-> [pl EXCEPT !.volume = v], ok |-> TRUE]

volume(pl, v) ==
    IF v < 0 \/ v > 100 THEN [pl |-> pl, ok |-> FALSE]
    ELSE [pl |-> [pl EXCEPT !.volume = v], ok |-> TRUE]

Volume ==
    /\ \E v \in Volumes :
         LET r == volume(players[reg], v)
         IN  /\ players' = [players EXCEPT ![reg] = r.pl]
             /\ vc' = IF r.ok /\ hasVoice /\ vc.state # "idle" THEN [vc EXCEPT !.gain = r.pl.volume] ELSE vc
             /\ last' = Call("volume", reg, v, r.ok, 0)
    /\ expect' = NoSong
    /\ UNCHANGED <<reg, tasks, pending, stopping, world, away, played>>

\* autoplay: toggles the flag; switching it off clears autoplay_history
autoplay(pl) ==
    IF pl.autoplay THEN [pl EXCEPT !.autoplay = FALSE, !.autoplay_history = {}]
    ELSE [pl EXCEPT !.autoplay = TRUE]

Autoplay ==
    /\ players' = [players EXCEPT ![reg] = autoplay(players[reg])]
    /\ last' = NoCall
    /\ expect' = NoSong
    /\ UNCHANGED <<reg, vc, tasks, pending, stopping, world, away, played>>

\* stop: player.stop() up to its await of disconnect(), or to its end and remove_player
\* when there is no voice client
Stop ==
    /\ stopping = 0
    /\ reg < MaxPlayers
    /\ fires(vc) => HasFree(tasks)
    /\ players' = [players EXCEPT ![reg] = stop_clear(players[reg])]
    /\ tasks' = IF fires(vc) THEN Spawn(MarkStale(tasks, reg), vc.owner) ELSE MarkStale(tasks, reg)
    /\ IF hasVoice
       THEN /\ vc' = [vc_stop(vc) EXCEPT !.conn = "closing"]
            /\ stopping' = reg
            /\ UNCHANGED reg
       ELSE /\ reg' = remove_player(reg)
            /\ UNCHANGED <<vc, stopping>>
    /\ last' = NoCall
    /\ expect' = NoSong
    /\ UNCHANGED <<pending, world, away, played>>

----------------------------------------------------------------------------
TaskStart == \E t \in 1..MaxTasks : TaskStartA(t) /\ UNCHANGED played
AiReturn == \E t \in 1..MaxTasks : AiReturnA(t) /\ UNCHANGED played
SearchReturn == \E t \in 1..MaxTasks : SearchReturnA(t) /\ UNCHANGED played
KeywordReturn == \E t \in 1..MaxTasks : KeywordReturnA(t) /\ UNCHANGED played
ResolveOk == \E t \in 1..MaxTasks : ResolveOkA(t) /\ UNCHANGED played
ResolveFail == \E t \in 1..MaxTasks : ResolveFailA(t) /\ UNCHANGED played
PlayRaises == \E t \in 1..MaxTasks : PlayRaisesA(t) /\ UNCHANGED played
TrackEnd == TrackEndA /\ UNCHANGED played
PlayResolved == \E c \in pending : PlayResolvedA(c) /\ UNCHANGED played

\* The room while it plays: users play a YouTube URL and a URL of another site, the
\* keyword search finds one video, no AI recommender is configured, and nobody stops
\* the player or switches autoplay.
Init == InitWith(World({<<"yt", 1>>, <<"web", 2>>}, {1}, FALSE))

Next ==
    \/ PlayStart \/ PlayResolved \/ PlayFailed
    \/ Skip \/ Previous \/ Shuffle \/ Loop \/ Clear
    \/ Pause \/ Resume_
    \/ TaskStart \/ KeywordReturn \/ ResolveOk \/ ResolveFail
    \/ TrackEnd

Spec == Init /\ [][Next]_vars

----------------------------------------------------------------------------
(* A QUEUE-loop run: three different songs are queued, loop_mode is QUEUE,  *)
(* autoplay is off, nothing is current, and the play_next that /play calls  *)
(* is about to run.  Nobody issues a command, every stream resolves and     *)
(* every track plays to its end.                                            *)

LoopUrls == {<<"yt", 1>>, <<"yt", 2>>, <<"web", 3>>, <<"web", 4>>}

Queue0s ==
    {q \in [1..3 -> {Song(u, "data", "user") : u \in LoopUrls}] : \A i, j \in 1..3 : q[i] = q[j] => i = j}

InitLoopQueue ==
    \E q0 \in Queue0s :
        /\ players = [p \in 1..MaxPlayers |->
                        IF p = 1 THEN [InitPlayer EXCEPT !.queue = q0, !.loop_mode = 2, !.autoplay = FALSE]
                        ELSE InitPlayer]
        /\ reg = 1
        /\ vc = [NoVoice EXCEPT !.conn = "up"]
        /\ tasks = [t \in 1..MaxTasks |-> IF t = 1 THEN NewTask(1) ELSE FreeTask]
        /\ pending = {}
        /\ stopping = 0
        /\ world = [World(LoopUrls, {}, FALSE) EXCEPT !.queue0 = q0]
        /\ last = NoCall
        /\ expect = NoSong
        /\ played = <<>>
        /\ away = NoVoice

\* play_next runs and the song it selected is written down
TaskStartLogged ==
    /\ Len(played) < MaxPlays
    /\ \E t \in 1..MaxTasks :
         /\ TaskStartA(t)
         /\ played' = Append(played, players'[tasks[t].p].current)

NextLoopQueue == TaskStartLogged \/ ResolveOk \/ TrackEnd

SpecLoopQueue == InitLoopQueue /\ [][NextLoopQueue]_vars

----------------------------------------------------------------------------
(* Going back in a QUEUE loop: as above with two songs queued; users skip   *)
(* and go back, every stream resolves and tracks may play to their end.     *)

BackQueue0s ==
    {q \in [1..2 -> {Song(u, "data", "user") : u \in LoopUrls}] : q[1] # q[2]}

InitLoopBack ==
    \E q0 \in BackQueue0s :
        /\ players = [p \in 1..MaxPlayers |->
                        IF p = 1 THEN [InitPlayer EXCEPT !.queue = q0, !.loop_mode = 2, !.autoplay = FALSE]
                        ELSE InitPlayer]
        /\ reg = 1
        /\ vc = [NoVoice EXCEPT !.conn = "up"]
        /\ tasks = [t \in 1..MaxTasks |-> IF t = 1 THEN NewTask(1) ELSE FreeTask]
        /\ pending = {}
        /\ stopping = 0
        /\ world = [World(LoopUrls, {}, FALSE) EXCEPT !.queue0 = q0]
        /\ last = NoCall
        /\ expect = NoSong
        /\ played = <<>>
        /\ away = NoVoice

NextLoopBack == TaskStart \/ ResolveOk \/ TrackEnd \/ Skip \/ Previous

SpecLoopBack == InitLoopBack /\ [][NextLoopBack]_vars

----------------------------------------------------------------------------
(* Autoplay: users play one YouTube video and let it end, the AI            *)
(* recommender is configured, searches find that video or another one, and  *)
(* somebody switches autoplay off and on while a search is under way.       *)

InitAutoplay == InitWith(World({<<"yt", 1>>}, {1, 2}, TRUE))

NextAutoplay ==
    \/ PlayStart \/ PlayResolved
    \/ Autoplay
    \/ TaskStart \/ AiReturn \/ SearchReturn \/ KeywordReturn \/ ResolveOk \/ ResolveFail
    \/ TrackEnd

SpecAutoplay == InitAutoplay /\ [][NextAutoplay]_vars

----------------------------------------------------------------------------
(* Fallback: as Autoplay, with one video to suggest, and somebody stops     *)
(* the player once, possibly while a suggestion is being made.              *)

InitFallback == InitWith(World({<<"yt", 1>>}, {1}, TRUE))

NextFallback ==
    \/ PlayStart \/ PlayResolved
    \/ Stop \/ CloseFinish
    \/ TaskStart \/ AiReturn \/ SearchReturn \/ KeywordReturn \/ ResolveOk \/ ResolveFail

SpecFallback == InitFallback /\ [][NextFallback]_vars

----------------------------------------------------------------------------
(* Handoff: users play one YouTube video, pause and resume it, and somebody *)
(* stops the player once; every stream resolves, so each play_next that     *)
(* awaits from_url goes on to call voice_client.play.                       *)

InitHandoff == InitWith(World({<<"yt", 1>>}, {1}, FALSE))

NextHandoff ==
    \/ PlayStart \/ PlayResolved
    \/ Pause \/ Resume_
    \/ Stop \/ CloseFinish
    \/ TaskStart \/ KeywordReturn \/ ResolveOk \/ PlayRaises

SpecHandoff == InitHandoff /\ [][NextHandoff]_vars

----------------------------------------------------------------------------
(* Stop: users play one YouTube video, the keyword search finds that same   *)
(* video, streams may fail to resolve, and somebody stops the player once;  *)
(* no track is left to play to its end.                                     *)

InitStop == InitWith(World({<<"yt", 1>>}, {1}, FALSE))

NextStop ==
    \/ PlayStart \/ PlayResolved
    \/ Stop \/ CloseFinish
    \/ TaskStart \/ KeywordReturn \/ ResolveOk \/ ResolveFail

SpecStop == InitStop /\ [][NextStop]_vars

----------------------------------------------------------------------------
(* Leaving: users play one YouTube video, skip, go back, pause and resume,  *)
(* the keyword search finds another video, and the bot leaves the channel   *)
(* when it is alone there.                                                  *)

InitLeave == InitWith(World({<<"yt", 1>>}, {2}, FALSE))

NextLeave ==
    \/ PlayStart \/ PlayResolved
    \/ Skip \/ Previous \/ Pause \/ Resume_
    \/ AutoLeave \/ CloseFinish
    \/ TaskStart \/ KeywordReturn \/ ResolveOk \/ ResolveFail
    \/ TrackEnd

SpecLeave == InitLeave /\ [][NextLeave]_vars

\* the event loop runs every coroutine that run_coroutine_threadsafe has scheduled
SpecLeaveFair ==
    SpecLeave /\ \A t \in 1..MaxTasks : WF_vars(TaskStartA(t) /\ UNCHANGED played)

----------------------------------------------------------------------------
(* Volume: users play one YouTube video, pause and resume it, and set the   *)
(* volume to values inside and outside 0..100.                              *)

InitVolume == InitWith(World({<<"yt", 1>>}, {}, FALSE))

NextVolume ==
    \/ PlayStart \/ PlayResolved
    \/ Volume \/ Pause \/ Resume_
    \/ TaskStart \/ KeywordReturn \/ ResolveOk \/ ResolveFail
    \/ TrackEnd

SpecVolume == InitVolume /\ [][NextVolume]_vars

----------------------------------------------------------------------------
(* Keyword search: users play a URL that is not a YouTube URL, no AI        *)
(* recommender is configured, and the keyword search finds two videos.      *)

InitKeyword == InitWith(World({<<"web", 9>>}, {1, 2}, FALSE))

NextKeyword ==
    \/ PlayStart \/ PlayResolved
    \/ TaskStart \/ KeywordReturn \/ ResolveOk \/ ResolveFail
    \/ TrackEnd

SpecKeyword == InitKeyword /\ [][NextKeyword]_vars

----------------------------------------------------------------------------
(* Racing commands: users issue /play for a YouTube URL and for a URL of    *)
(* another site while an earlier /play is still resolving; every URL        *)
(* resolves, after a time of its own, and searches find nothing.            *)

InitRacing == InitWith(World({<<"yt", 1>>, <<"web", 2>>}, {}, FALSE))

PlayStartRacing == PlayStartUpTo(MaxRacing)

NextRacing ==
    \/ PlayStartRacing \/ PlayResolved
    \/ TaskStart \/ KeywordReturn \/ ResolveOk
    \/ TrackEnd

SpecRacing == InitRacing /\ [][NextRacing]_vars

\* every from_url call returns, every scheduled play_next runs, every search returns
\* and every track plays to its end; users need not issue further commands
SpecRacingFair ==
    /\ SpecRacing
    /\ WF_vars(PlayResolved) /\ WF_vars(TaskStart) /\ WF_vars(KeywordReturn)
    /\ WF_vars(ResolveOk) /\ WF_vars(TrackEnd)

----------------------------------------------------------------------------
(* One suggestion call: a YouTube video a user played has ended, its id is  *)
(* in autoplay_history, and the play_next that follows awaits the AI        *)
(* recommender, which may return more queries than it was asked for; the    *)
(* searches find that video or one of MaxQueries others.                    *)

InitSuggest ==
    /\ players = [p \in 1..MaxPlayers |->
                    IF p = 1
                    THEN [InitPlayer EXCEPT !.current = Song(<<"yt", 1>>, "data", "user"), !.is_playing = TRUE,
                                            !.history = <<Song(<<"yt", 1>>, "data", "user")>>,
                                            !.autoplay_history = {1}]
                    ELSE InitPlayer]
    /\ reg = 1
    /\ vc = [NoVoice EXCEPT !.conn = "up"]
    /\ tasks = [t \in 1..MaxTasks |->
                  IF t = 1 THEN [NewTask(1) EXCEPT !.pc = "ai", !.ex0 = {1}] ELSE FreeTask]
    /\ pending = {}
    /\ stopping = 0
    /\ world = World({<<"yt", 1>>}, 1..(MaxQueries + 1), TRUE)
    /\ last = NoCall
    /\ expect = NoSong
    /\ played = <<>>
    /\ away = NoVoice

AiReturnMany == \E t \in 1..MaxTasks : AiReturnUpTo(t, MaxQueries) /\ UNCHANGED played

NextSuggest == AiReturnMany \/ SearchReturn \/ KeywordReturn \/ ResolveOk

SpecSuggest == InitSuggest /\ [][NextSuggest]_vars

----------------------------------------------------------------------------
(* Retries: one or two songs users played are queued, loop_mode and the     *)
(* autoplay flag have any value, nothing is current, and the play_next that *)
(* /play calls is about to run.  Nobody issues a command; every call to     *)
(* from_url and to the keyword search returns, and may fail every time.     *)

RetryUrls == {<<"yt", 1>>, <<"web", 2>>}

RetryQueues == UNION {[1..n -> {Song(u, "data", "user") : u \in RetryUrls}] : n \in 1..2}

InitRetry ==
    \E q0 \in RetryQueues, m \in {0, 1, 2}, a \in BOOLEAN :
        /\ players = [p \in 1..MaxPlayers |->
                        IF p = 1 THEN [InitPlayer EXCEPT !.queue = q0, !.loop_mode = m, !.autoplay = a]
                        ELSE InitPlayer]
        /\ reg = 1
        /\ vc = [NoVoice EXCEPT !.conn = "up"]
        /\ tasks = [t \in 1..MaxTasks |-> IF t = 1 THEN NewTask(1) ELSE FreeTask]
        /\ pending = {}
        /\ stopping = 0
        /\ world = World(RetryUrls, {1}, FALSE)
        /\ last = NoCall
        /\ expect = NoSong
        /\ played = <<>>
        /\ away = NoVoice

NextRetry == TaskStart \/ KeywordReturn \/ ResolveOk \/ ResolveFail

\* every external call returns
SpecRetry == InitRetry /\ [][NextRetry]_vars /\ WF_vars(NextRetry)

----------------------------------------------------------------------------
(* Two guilds: guild g's registered player is players[g] and nobody stops   *)
(* a player.  The event loop handles one event of one guild at a time: reg  *)
(* and vc are the player index and the voice client of the guild whose      *)
(* event is handled, away is the voice client of the other guild.  Users of *)
(* each guild play one YouTube video; streams may fail to resolve and the   *)
(* keyword search finds nothing.                                            *)

InitRooms == InitWith(World({<<"yt", 1>>}, {}, FALSE))

\* the next event belongs to the other guild
SwitchRoom ==
    /\ reg' = 3 - reg
    /\ vc' = away
    /\ away' = vc
    /\ last' = NoCall
    /\ expect' = NoSong
    /\ UNCHANGED <<players, tasks, pending, stopping, world, played>>

\* a coroutine that uses the voice client of whichever guild is being served
Here_any(p) == TRUE

\* a coroutine reads self.guild.voice_client, the voice client of its own guild
Here(p) == p = reg

TaskStartHere == \E t \in 1..MaxTasks : Here(tasks[t].p) /\ TaskStartA(t) /\ UNCHANGED played
KeywordReturnHere == \E t \in 1..MaxTasks : Here(tasks[t].p) /\ KeywordReturnA(t) /\ UNCHANGED played
ResolveOkHere == \E t \in 1..MaxTasks : Here(tasks[t].p) /\ ResolveOkA(t) /\ UNCHANGED played
ResolveFailHere == \E t \in 1..MaxTasks : Here(tasks[t].p) /\ ResolveFailA(t) /\ UNCHANGED played
PlayResolvedHere == \E c \in pending : Here(c.p) /\ PlayResolvedA(c) /\ UNCHANGED played

NextRooms ==
    \/ SwitchRoom
    \/ PlayStart \/ PlayResolvedHere
    \/ Skip
    \/ TaskStartHere \/ KeywordReturnHere \/ ResolveOkHere \/ ResolveFailHere
    \/ TrackEnd

SpecRooms == InitRooms /\ [][NextRooms]_vars

\* the event loop gets to the events of both guilds, and runs every coroutine of
\* guild 2 that is scheduled; nothing is assumed about guild 1's external calls
SpecRoomsFair ==
    /\ SpecRooms
    /\ WF_vars(SwitchRoom)
    /\ \A t \in 1..MaxTasks : SF_vars(tasks[t].p = 2 /\ Here(2) /\ TaskStartA(t) /\ UNCHANGED played)

----------------------------------------------------------------------------
(* Claims                                                                  *)

\* C1: in every reachable state the queue of every player holds at most
\* MAX_QUEUE_SIZE songs, and so does the queue stop() would leave.
C1_QueueBounded ==
    \A p \in 1..MaxPlayers :
        /\ Len(players[p].queue) <= MAX_QUEUE_SIZE
        /\ Len(stop_call(players[p], vc).pl.queue) <= MAX_QUEUE_SIZE

\* a song was enqueued while the queue was full
C1_Witness ==
    /\ last.op = "add_to_queue" /\ last.len0 = MAX_QUEUE_SIZE
    /\ Len(players[last.p].queue) = MAX_QUEUE_SIZE

\* C2: add_to_queue on a full queue is rejected: the caller gets a failure instead of a
\* queue position, and the queue is as long after the call as before it.
C2_FullQueueRejects ==
    [][(last'.op = "add_to_queue" /\ last'.len0 = MAX_QUEUE_SIZE)
        => /\ ~last'.ok
           /\ Len(players'[last'.p].queue) = Len(players[last'.p].queue)]_vars

\* C3: previous() returns false exactly when history is empty when it is called, and a
\* call that returns false changes neither the player (queue, history, current) nor
\* the voice client, and schedules nothing.
C3_PreviousFailsIffNoHistory ==
    [][last'.op = "previous"
        => /\ ~last'.ok <=> players[last'.p].history = <<>>
           /\ ~last'.ok => players' = players /\ vc' = vc /\ tasks' = tasks]_vars

\* previous() returned false while a song was playing
C3_Witness == last.op = "previous" /\ ~last.ok /\ players[last.p].current # NoSong /\ sinkPlaying

\* C4: after a successful previous(), the song it took from history is current once
\* the next play_next has run, in every loop mode.
C4_PreviousSongBecomesCurrent ==
    [][(last'.op = "play_next" /\ last'.p = reg /\ expect # NoSong)
        => players'[reg].current = expect]_vars

\* C5: a play_next run that finds loop_mode = TRACK and a current song selects that
\* song again and leaves the queue as it is.
C5_TrackLoopReplays ==
    [][(last'.op = "play_next" /\ players[last'.p].loop_mode = 1 /\ players[last'.p].current # NoSong)
        => /\ players'[last'.p].current = players[last'.p].current
           /\ players'[last'.p].queue = players[last'.p].queue]_vars

\* play_next ran in TRACK mode with a current song while other songs were waiting
C5_Witness ==
    /\ last.op = "play_next" /\ last.ok /\ last.len0 > 0
    /\ players[last.p].loop_mode = 1

\* C6: in a QUEUE-loop run that starts from the queue [A, B, C], the k-th song play_next
\* selects is the ((k - 1) mod 3 + 1)-th song of that queue, and once a song has been
\* selected the player always has a current song and is_playing set.
C6_QueueLoopCycles ==
    /\ \A k \in 1..Len(played) : played[k] = world.queue0[((k - 1) % 3) + 1]
    /\ played # <<>> =>
         /\ players[1].current = played[Len(played)]
         /\ players[1].is_playing
         /\ Len(players[1].queue) = 2

\* the queue went round twice and started a third round
C6_Witness == Len(played) = MaxPlays /\ sinkPlaying /\ vc.song = world.queue0[1]

\* C7: every result of shuffle() holds the multiset of songs that were queued, equals
\* the player it was called on when fewer than two songs were queued, and has the same
\* current and history; and the shuffle command leaves a player in one of these results.
C7_ShufflePermutes ==
    [][last'.op = "shuffle"
        => /\ \A pl \in shuffle(players[reg]) :
                /\ SameMultiset(players[reg].queue, pl.queue)
                /\ Len(players[reg].queue) < 2 => pl = players[reg]
                /\ pl.current = players[reg].current
                /\ pl.history = players[reg].history
           /\ players'[reg] \in shuffle(players[reg])]_vars

\* a full queue holding two different songs was shuffled, and a song that autoplay
\* had queued is at its front
C7_Witness ==
    /\ last.op = "shuffle" /\ last.ok /\ last.len0 = MAX_QUEUE_SIZE
    /\ Cardinality(Range(players[reg].queue)) >= 2
    /\ Head(players[reg].queue).requester = "none"

\* C8: no song _get_autoplay_songs returns has an id that was in autoplay_history when
\* the call started.
C8_ReturnedNotExcluded ==
    \A t \in 1..MaxTasks :
        tasks[t].pc = "resolve" =>
            \A i \in 1..Len(tasks[t].batch) : _extract_video_id(tasks[t].batch[i].url) \notin tasks[t].ex0

\* C9: when _get_autoplay_songs returns no song, the play_next that called it ends
\* with current = None and is_playing = False, and its coroutine is gone.
C9_EmptySuggestionStopsPlayback ==
    [][\A t \in 1..MaxTasks :
        (tasks[t].pc \in {"ai", "search", "kw"} /\ last'.op = "_get_autoplay_songs"
            /\ last'.pos = 0 /\ tasks'[t] # tasks[t])
        => /\ last'.ok
           /\ tasks'[t] = FreeTask
           /\ players'[tasks[t].p].current = NoSong
           /\ ~players'[tasks[t].p].is_playing
           /\ players'[tasks[t].p].queue = players[tasks[t].p].queue]_vars

\* both tiers ran and found nothing new while the audio was idle
C9_Witness ==
    /\ last.op = "_get_autoplay_songs" /\ last.pos = 0
    /\ players[last.p].current = NoSong /\ ~players[last.p].is_playing
    /\ players[last.p].history # <<>>
    /\ hasVoice /\ ~sinkPlaying

C11_StopResetsPlayer ==
    [][(stopping # 0 /\ stopping' = 0)
        => /\ players'[stopping] = stop_clear(players'[stopping])
           /\ vc' = NoVoice]_vars

\* C12: when the keyword search of a play_next returns k results (1 <= k <= 5) that
\* have different ids, none of them in autoplay_history, to a player with an empty
\* queue, a current song, loop OFF and autoplay on, then after play_next the first
\* result is current with no requester and the other k - 1 are the queue, in order.
Unseen(raw, pl) ==
    /\ Len(raw) \in 1..DESIRED_COUNT
    /\ \A i \in 1..Len(raw) : raw[i] # NoId /\ raw[i] \notin pl.autoplay_history
    /\ \A i, j \in 1..Len(raw) : raw[i] = raw[j] => i = j

C13_VolumeValidated ==
    [][/\ (last'.op = "volume" /\ (last'.pos < 0 \/ last'.pos > 100))
            => ~last'.ok /\ players' = players /\ vc' = vc
       /\ \A p \in 1..MaxPlayers : players'[p].volume \in 0..100 /\ vc'.gain \in 0..100]_vars

\* 101 was rejected while a source played at a volume a user had set before
C13_Witness ==
    /\ last.op = "volume" /\ last.pos = 101 /\ ~last.ok
    /\ sinkPlaying /\ vc.gain = 0 /\ players[reg].volume = 0

\* C14: in every reachable state every player has current = None exactly when
\* is_playing = False.
C14_CurrentIffPlaying ==
    \A p \in 1..MaxPlayers : (players[p].current = NoSong) <=> ~players[p].is_playing

\* stop() is suspended in disconnect() on a player it has reset while a play_next of
\* that player is suspended at an await
C14_Witness ==
    /\ stopping # 0
    /\ \E t \in 1..MaxTasks : tasks[t].stale /\ tasks[t].p = stopping
    /\ players[stopping].current = NoSong /\ ~players[stopping].is_playing

\* C15: in every reachable state a player with is_playing = True has a play_next
\* scheduled or suspended, or the connected voice client holds a song it started
\* (playing or paused).
Scheduled(p) ==
    \/ \E t \in 1..MaxTasks : tasks[t].pc # "free" /\ tasks[t].p = p
    \/ vc.conn = "up" /\ vc.state # "idle" /\ vc.owner = p

C15_PlayingMeansScheduled ==
    \A p \in 1..MaxPlayers : players[p].is_playing => Scheduled(p)

\* C16: the history of every player never holds more than HISTORY_MAXLEN songs, and
\* a play_next that records the current song in a full history drops the oldest
\* entry and keeps the others in order, with the recorded song last.
C16_HistoryBoundedOldestFirst ==
    [][/\ \A p \in 1..MaxPlayers : Len(players'[p].history) <= HISTORY_MAXLEN
       /\ (last'.op = "play_next" /\ last'.ok /\ players[last'.p].loop_mode # 1
              /\ Len(players[last'.p].history) = HISTORY_MAXLEN)
            => players'[last'.p].history
                 = Append(Tail(players[last'.p].history), players[last'.p].current)]_vars

\* a song was recorded in a full history whose oldest entry was another song
C16_Witness ==
    /\ last.op = "play_next" /\ last.ok /\ last.pos = HISTORY_MAXLEN
    /\ players[last.p].loop_mode # 1
    /\ Len(players[last.p].history) = HISTORY_MAXLEN
    /\ players[last.p].history[1] # players[last.p].history[HISTORY_MAXLEN]

\* C17: in every reachable state autoplay_history of every player holds at most
\* AUTOPLAY_MAX_HISTORY ids.
C17_AutoplayHistoryBounded ==
    \A p \in 1..MaxPlayers : Cardinality(players[p].autoplay_history) <= AUTOPLAY_MAX_HISTORY

\* C18: in every reachable state at most one play_next of a player is suspended at
\* an await, and none is while the voice client plays a song that player started.
InFlight(p) == {t \in 1..MaxTasks : tasks[t].p = p /\ tasks[t].pc \in InFlightPcs}

C18_OnePlayNextInFlight ==
    \A p \in 1..MaxPlayers :
        /\ Cardinality(InFlight(p)) <= 1
        /\ (sinkPlaying /\ vc.owner = p) => InFlight(p) = {}

\* C19: a step in which the voice client loses the song it held (the track ended, or
\* skip, previous or a disconnect stopped it) schedules exactly one play_next for the
\* player that started the song; no other step schedules a play_next; no song the
\* voice client holds is replaced by another without such a step; and every
\* scheduled play_next runs.
Starts(ts, p) == Cardinality({t \in 1..MaxTasks : ts[t].pc = "start" /\ ts[t].p = p})

C19_OneRunPerCompletion ==
    [][/\ (fires(vc) /\ ~fires(vc'))
            => /\ Starts(tasks', vc.owner) = Starts(tasks, vc.owner) + 1
               /\ \A p \in 1..MaxPlayers \ {vc.owner} : Starts(tasks', p) = Starts(tasks, p)
       /\ ~(fires(vc) /\ ~fires(vc'))
            => \A p \in 1..MaxPlayers : Starts(tasks', p) <= Starts(tasks, p)
       /\ (fires(vc) /\ fires(vc')) => vc'.song = vc.song /\ vc'.owner = vc.owner]_vars
    /\ \A t \in 1..MaxTasks : (tasks[t].pc = "start") ~> (tasks[t].pc # "start")

\* a paused song was stopped by the disconnect and its play_next is scheduled
C19_Witness ==
    /\ vc.conn = "closing"
    /\ \E t \in 1..MaxTasks : tasks[t].pc = "start"
    /\ players[reg].is_playing

\* C20: when a play_next that was suspended in metadata resolution or in autoplay
\* recommendation while stop() ran on its player returns, its result is discarded:
\* the step leaves the player's current, is_playing and queue as they were and
\* hands no song to the voice client.
C20_StaleResultDiscarded ==
    [][\A t \in 1..MaxTasks :
         (tasks[t].stale /\ tasks'[t] # tasks[t]) =>
            /\ players'[tasks[t].p].current = players[tasks[t].p].current
            /\ players'[tasks[t].p].is_playing = players[tasks[t].p].is_playing
            /\ players'[tasks[t].p].queue = players[tasks[t].p].queue
            /\ vc'.song = vc.song /\ vc'.state = vc.state]_vars

\* C21: the songs of /play commands issued for one player enter it in the order the
\* commands were issued: when the song of a command is enqueued (or starts playing),
\* no command issued earlier for the same player is still resolving its own URL.
C21_PlayInIssueOrder ==
    [][last'.op \in {"play", "add_to_queue"}
         => \E c \in pending :
              /\ pending' = Leave(pending, c)
              /\ \A d \in pending : d.p = c.p => d.n >= c.n]_vars

\* C22: when /play enqueues a song on a player that is playing, add_to_queue returns
\* the length of the queue after the call, the song is at that position (the last
\* one), the songs that stay in the queue keep their order in front of it, and
\* current, is_playing, history, loop_mode, the voice client and the play_next
\* coroutines are unchanged.
C22_EnqueueAtBack ==
    [][last'.op = "add_to_queue"
         => \E c \in pending :
              LET pl == players[c.p]
                  pl1 == players'[c.p]
                  k == last'.pos
              IN  /\ pending' = Leave(pending, c)
                  /\ last'.p = c.p
                  /\ k = Len(pl1.queue) /\ k >= 1
                  /\ pl1.queue[k] = Song(c.url, "data", "user")
                  /\ SubSeq(pl1.queue, 1, k - 1)
                        = SubSeq(pl.queue, Len(pl.queue) - (k - 1) + 1, Len(pl.queue))
                  /\ pl1.current = pl.current /\ pl1.is_playing = pl.is_playing
                  /\ pl1.history = pl.history /\ pl1.loop_mode = pl.loop_mode
                  /\ vc' = vc /\ tasks' = tasks]_vars

\* a song was enqueued behind a different song while the voice client was playing
C22_Witness ==
    /\ last.op = "add_to_queue" /\ last.pos = 2 /\ last.len0 = 1
    /\ players[last.p].queue[1] # players[last.p].queue[2]
    /\ sinkPlaying

\* C23: one instance is registered for the guild at a time; only a completing stop
\* command changes which one (every other step leaves the registered instance in
\* place); when the stop command completes the instance it stopped is no longer
\* registered, and the instance the next get_player returns is a new one in the
\* state __init__ leaves: empty queue and history, no current song, loop OFF.
C23_FreshPlayerAfterStop ==
    [][/\ (stopping # 0 /\ stopping' = 0) => reg' = stopping + 1
       /\ reg' # reg =>
             /\ \/ stopping = reg /\ stopping' = 0
                \/ stopping = 0 /\ ~hasVoice /\ players'[reg] = stop_clear(players[reg])
             /\ reg' = reg + 1
             /\ players'[reg'] = InitPlayer
       /\ \A p \in 1..MaxPlayers : p > reg' => players'[p] = InitPlayer]_vars

\* the stop command has completed and the new instance is fresh although a coroutine
\* of the stopped instance has made a song current on that instance
C23_Witness ==
    /\ reg = 2 /\ stopping = 0 /\ ~hasVoice
    /\ players[2] = InitPlayer
    /\ players[1].current # NoSong

\* C24: a step of one guild (a command, a play_next run, a failed resolution, a
\* failed autoplay search, the end of a track) leaves the player of the other guild
\* (queue, history, current, loop_mode, volume, autoplay, autoplay_history,
\* is_playing), its voice client, its play_next coroutines and its /play commands as
\* they were; and a play_next scheduled for guild 2 runs although a coroutine of
\* guild 1 stays suspended in an external call.
External(p) ==
    \/ \E t \in 1..MaxTasks : tasks[t].p = p /\ tasks[t].pc \in InFlightPcs
    \/ \E c \in pending : c.p = p

C24_RoomsIsolated ==
    /\ [][LET y == 3 - reg
          IN  /\ players'[y] = players[y]
              /\ \A t \in 1..MaxTasks : (tasks[t].p = y \/ tasks'[t].p = y) => tasks'[t] = tasks[t]
              /\ {c \in pending' : c.p = y} = {c \in pending : c.p = y}
              /\ reg' = reg => away' = away
              /\ reg' # reg => away' = vc /\ vc' = away /\ players' = players /\ tasks' = tasks]_vars
    /\ \A t \in 1..MaxTasks :
          (tasks[t].pc = "start" /\ tasks[t].p = 2 /\ External(1)) ~> (tasks[t].pc # "start")

\* guild 2 plays a song while a play_next of guild 1 waits for a stream to resolve
C24_Witness ==
    /\ \E t \in 1..MaxTasks : tasks[t].p = 1 /\ tasks[t].pc = "resolve"
    /\ reg = 2 /\ sinkPlaying /\ vc.owner = 2
    /\ players[2].current # NoSong /\ players[1].current # NoSong
    /\ away.conn = "up"

\* C25: one call of _get_autoplay_songs returns at most DESIRED_COUNT songs, and at
\* no point of the call have more than DESIRED_COUNT candidates been accepted,
\* however many queries the recommender returned.
C25_AtMostDesiredCount ==
    /\ last.op = "_get_autoplay_songs" => last.pos <= DESIRED_COUNT
    /\ \A t \in 1..MaxTasks : Len(tasks[t].batch) <= DESIRED_COUNT

\* C26: the songs a call of _get_autoplay_songs has accepted, and so the batch it
\* returns, never include two songs with the same video id.
C26_BatchIdsDistinct ==
    \A t \in 1..MaxTasks :
        \A i, j \in 1..Len(tasks[t].batch) :
            _extract_video_id(tasks[t].batch[i].url) = _extract_video_id(tasks[t].batch[j].url) => i = j

\* C27: where users play URLs that no search returns, every song in a queue, a
\* history, a current slot or a batch of suggestions that came from a search has
\* requester none and an empty stream_url, every song a user played has a
\* requester, and so a song has requester none exactly when autoplay produced it.
Songs(p) ==
    Range(players[p].queue) \cup Range(players[p].history) \cup ({players[p].current} \ {NoSong})
        \cup UNION {Range(tasks[t].batch) : t \in {u \in 1..MaxTasks : tasks[u].p = p}}

FromAutoplay(s) == \E vid \in world.ids : s.url = <<"yt", vid>>
FromUser(s) == s.url \in world.urls

C27_RequesterTellsOrigin ==
    \A p \in 1..MaxPlayers : \A s \in Songs(p) :
        /\ FromAutoplay(s) # FromUser(s)
        /\ FromAutoplay(s) => s.requester = "none" /\ s.stream_url = ""
        /\ FromUser(s) => s.requester # "none"
        /\ s.requester = "none" <=> FromAutoplay(s)

\* a suggested song plays while a suggested song and a song a user played are queued
C27_Witness ==
    /\ players[1].current.requester = "none" /\ sinkPlaying
    /\ \E i, j \in 1..Len(players[1].queue) :
          players[1].queue[i].requester = "user" /\ players[1].queue[j].requester = "none"

\* C28: loop_mode of every player is 0, 1 or 2; the loop command takes 0 to 1, 1 to 2
\* and 2 to 0 and changes no other field, so three commands in a row restore the
\* player; and a step that changes the loop_mode of a player is a loop command on
\* the registered player, which leaves the voice client, the play_next coroutines
\* and the other players as they were.
C28_LoopCycles ==
    [][\A p \in 1..MaxPlayers :
         LET pl == players[p]
         IN  /\ pl.loop_mode \in {0, 1, 2} /\ players'[p].loop_mode \in {0, 1, 2}
             /\ loop(pl).loop_mode = (IF pl.loop_mode = 0 THEN 1 ELSE IF pl.loop_mode = 1 THEN 2 ELSE 0)
             /\ loop(pl) = [pl EXCEPT !.loop_mode = loop(pl).loop_mode]
             /\ loop(loop(loop(pl))) = pl
             /\ players'[p].loop_mode # pl.loop_mode
                  => /\ p = reg
                     /\ players' = [players EXCEPT ![p] = loop(pl)]
                     /\ players'[p].loop_mode
                          = (IF pl.loop_mode = 0 THEN 1 ELSE IF pl.loop_mode = 1 THEN 2 ELSE 0)
                     /\ vc' = vc /\ tasks' = tasks /\ pending' = pending /\ reg' = reg]_vars

\* two loop commands have set QUEUE mode while a song plays with songs queued and
\* history kept
C28_Witness ==
    /\ players[reg].loop_mode = 2 /\ sinkPlaying
    /\ players[reg].queue # <<>> /\ players[reg].history # <<>>
    /\ players[reg].current # NoSong

\* C29: a skip or previous command leaves current and is_playing of its player as
\* they were and runs no play_next: the play_next coroutines that exist are untouched,
\* and a new one appears only as scheduled by the callback of the audio the command
\* stopped.  skip() changes no player at all, and when the voice client is not
\* playing it changes neither the voice client nor the coroutines.
C29_SkipPreviousOnlyStopSink ==
    [][last'.op \in {"skip", "previous"}
         => LET p == last'.p
            IN  /\ players'[p].current = players[p].current
                /\ players'[p].is_playing = players[p].is_playing
                /\ \A t \in 1..MaxTasks :
                      tasks'[t] # tasks[t]
                         => /\ tasks[t].pc = "free" /\ tasks'[t] = NewTask(vc.owner)
                            /\ sinkPlaying /\ vc' = vc_stop(vc)
                /\ vc' # vc => sinkPlaying /\ vc' = vc_stop(vc) /\ tasks' # tasks
                /\ last'.op = "skip" => players' = players /\ skip(players[p], sinkPlaying).pl = players[p]
                /\ (last'.op = "skip" /\ ~sinkPlaying) => vc' = vc /\ tasks' = tasks]_vars

\* skip was called on a paused song with songs queued, and nothing happened
C29_Witness ==
    /\ last.op = "skip" /\ ~last.ok /\ last.len0 > 0
    /\ vc.state = "paused"
    /\ players[last.p].current # NoSong /\ players[last.p].is_playing

\* C30: with nobody issuing commands, the chain of play_next retries ends whatever
\* the loop mode and however often resolution fails: eventually no play_next is
\* scheduled or suspended, and then the voice client plays a song or the player has
\* current = None and is_playing = False.
C30_RetryTerminates ==
    <>(/\ \A t \in 1..MaxTasks : tasks[t].pc = "free"
       /\ \/ sinkPlaying
          \/ players[1].current = NoSong /\ ~players[1].is_playing)

\* C31: a play_next run that finds a current song and loop_mode # TRACK leaves that
\* song as the newest entry of history and, when its URL carries a video id, that id
\* in autoplay_history; a run that finds TRACK mode or no current song leaves
\* history and autoplay_history as they were.
C31_FinishedSongRecorded ==
    [][last'.op = "play_next"
         => LET pl == players[last'.p]
                pl1 == players'[last'.p]
                vid == _extract_video_id(pl.current.url)
            IN  IF pl.current # NoSong /\ pl.loop_mode # 1
                THEN /\ pl1.history = append(pl.history, pl.current, HISTORY_MAXLEN)
                     /\ vid # NoId => vid \in pl1.autoplay_history
                ELSE /\ pl1.history = pl.history
                     /\ pl1.autoplay_history = pl.autoplay_history]_vars

\* C32: a play_next run chooses by priority.  (1) TRACK with a current song: that
\* song again, queue untouched.  (2) Else a non-empty queue: its head, and the rest
\* is the queue, with the finished song appended in QUEUE mode.  (3) Else QUEUE with
\* a current song: that song again.  (4) Else autoplay on with a current song: the
\* run is suspended in _get_autoplay_songs.  (5) Else current = None and
\* is_playing = False.  _get_autoplay_songs is entered in case (4) only.
Filling(ts) == {t \in 1..MaxTasks : ts[t].pc \in {"ai", "search", "kw"}}

C32_NextSongPriority ==
    [][last'.op = "play_next"
         => LET pl == players[last'.p]
                pl1 == players'[last'.p]
                cur == pl.current # NoSong
                entered == Filling(tasks') \ Filling(tasks)
            IN  /\ IF pl.loop_mode = 1 /\ cur
                   THEN pl1.current = pl.current /\ pl1.queue = pl.queue /\ pl1.is_playing
                   ELSE IF pl.queue # <<>>
                   THEN /\ pl1.current = Head(pl.queue) /\ pl1.is_playing
                        /\ pl1.queue = IF pl.loop_mode = 2 /\ cur
                                       THEN append(Tail(pl.queue), pl.current, MAX_QUEUE_SIZE)
                                       ELSE Tail(pl.queue)
                   ELSE IF pl.loop_mode = 2 /\ cur
                   THEN pl1.current = pl.current /\ pl1.queue = <<>> /\ pl1.is_playing
                   ELSE IF pl.autoplay /\ cur
                   THEN /\ Cardinality(entered) = 1
                        /\ \A t \in entered : tasks'[t].p = last'.p
                        /\ pl1.queue = <<>>
                   ELSE pl1.current = NoSong /\ ~pl1.is_playing /\ pl1.queue = <<>>
                /\ entered # {} => pl.queue = <<>> /\ pl.loop_mode = 0 /\ cur /\ pl.autoplay]_vars

\* play_next found QUEUE mode, an empty queue and a current song while autoplay was
\* on, and replayed the song
C32_Witness ==
    /\ last.op = "play_next" /\ last.ok /\ last.len0 = 0
    /\ players[last.p].loop_mode = 2 /\ players[last.p].autoplay
    /\ players[last.p].is_playing /\ players[last.p].queue = <<>>
    /\ \E t \in 1..MaxTasks : tasks[t].pc = "resolve" /\ tasks[t].song = players[last.p].current

\* C33: a step in which the voice client starts to play a song is the return of
\* from_url in a play_next that was suspended in it for that song, and the stream the
\* voice client reads is the one that call returned, never the stream_url stored in
\* the song; this holds in every loop mode, so for replays too.
C33_AlwaysResolvedAfresh ==
    [][/\ (vc.state = "idle" /\ vc'.state # "idle")
            => /\ \E t \in 1..MaxTasks :
                    /\ tasks[t].pc = "resolve" /\ tasks[t].song = vc'.song
                    /\ tasks[t].p = vc'.owner /\ tasks'[t] = FreeTask
               /\ vc'.stream = "fresh"
       /\ vc'.state # "idle" => vc'.stream = "fresh" /\ vc'.stream # vc'.song.stream_url
       /\ (vc.state # "idle" /\ vc'.state # "idle") => vc'.stream = vc.stream]_vars

\* in QUEUE mode with an empty queue the song that has just finished plays again
C33_Witness ==
    /\ sinkPlaying /\ vc.stream = "fresh" /\ vc.song.stream_url = "data"
    /\ players[vc.owner].loop_mode = 2 /\ players[vc.owner].queue = <<>>
    /\ players[vc.owner].history # <<>>
    /\ vc.song = players[vc.owner].history[Len(players[vc.owner].history)]

\* C34: when tier 1 of a suggestion ends (the coroutine leaves the recommender call or
\* the last search for a recommended query), it has returned a batch exactly when it
\* accepted at least one candidate, and otherwise the coroutine is in the keyword
\* search: no suggestion ends in tier 1 with nothing and without tier 2 being tried.
C34_KeywordFallbackIffNothingAccepted ==
    [][\A t \in 1..MaxTasks :
          (tasks[t].pc \in {"ai", "search"} /\ tasks'[t].pc \notin {"ai", "search"})
            => IF last'.op = "_get_autoplay_songs" /\ last'.pos > 0
               THEN tasks'[t].pc # "kw"
               ELSE tasks'[t].pc = "kw" /\ tasks'[t].batch = <<>>]_vars

\* player p is idle: nothing is current, is_playing is False and no play_next of p is
\* scheduled or suspended
Idle(pls, ts, p) ==
    /\ pls[p].current = NoSong /\ ~pls[p].is_playing
    /\ \A t \in 1..MaxTasks : ts[t].p # p

\* C35: once play_next has found no next song the player stays idle and the voice
\* client silent until a play command leaves from_url, and that command, with a voice
\* connection, enqueues its song and runs play_next, which makes that song current and
\* is suspended in its resolution with the voice client ready to take it.
C35_PlayRecoversFromExhaustion ==
    [][Idle(players, tasks, reg)
         => /\ vc.state # "playing"
            /\ ~Idle(players', tasks', reg) => last'.op = "play" /\ last'.p = reg
            /\ (last'.op = "play" /\ last'.p = reg /\ hasVoice)
                 => \E c \in pending :
                      LET song == Song(c.url, "data", "user")
                      IN  /\ pending' = Leave(pending, c)
                          /\ players'[reg].current = song /\ players'[reg].is_playing
                          /\ \E t \in 1..MaxTasks :
                               /\ tasks'[t].pc = "resolve" /\ tasks'[t].p = reg
                               /\ tasks'[t].song = song
                          /\ vc'.conn = "up" /\ vc'.state # "playing"]_vars

RacingSongs == {Song(u, "data", "user") : u \in {<<"yt", 1>>, <<"web", 2>>}}

\* C36: with loop OFF, a connected voice client, streams that resolve and tracks that
\* end, and no clear or stop, the song at the front of the queue eventually becomes
\* current, also when it was enqueued while play_next awaited a suggestion that came
\* back empty.
C36_QueuedSongEventuallyCurrent ==
    \A s \in RacingSongs :
        (players[1].queue # <<>> /\ Head(players[1].queue) = s) ~> (players[1].current = s)

\* C37: in a step that is not clear_queue, every song waiting in the queue is still
\* there afterwards, as often as before, except that a play_next which makes the front
\* song current takes that one copy of it away.
C37_WaitingSongsNotDropped ==
    [][\A p \in 1..MaxPlayers :
          LET q == players[p].queue
              q1 == players'[p].queue
              popped(x) ==
                  /\ last'.op \in {"play", "play_next", "_get_autoplay_songs"} /\ last'.p = p
                  /\ x = Head(q) /\ players'[p].current = x
          IN  players'[p] # clear_queue(players[p])
                => \A x \in Range(q) :
                      Count(q1, x) >= Count(q, x) - (IF popped(x) THEN 1 ELSE 0)]_vars

\* the play_next suspended in from_url as coroutine t goes on in this step
Moved(t) == [tasks'[t] EXCEPT !.stale = FALSE] # [tasks[t] EXCEPT !.stale = FALSE]

\* C38: when every stream resolves, a play_next that leaves from_url calls
\* voice_client.play, and at that moment the voice client is neither playing nor
\* paused, whatever the interleaving of commands, stop included.
C38_SinkAskedOnlyWhenFree ==
    [][\A t \in 1..MaxTasks :
          (tasks[t].pc = "resolve" /\ Moved(t))
            => ~(vc.conn = "up" /\ vc.state \in {"playing", "paused"})]_vars

\* the current song, when there is one, followed by the queue
Looping(pl) == IF pl.current = NoSong THEN pl.queue ELSE <<pl.current>> \o pl.queue

\* C39: in a QUEUE loop with autoplay off, streams that resolve and no play, clear or
\* stop command, the current song and the queue together hold exactly the songs the
\* loop started with, each as often as at the start, after any track completions,
\* skips and previous commands, whenever the play_next they led to has run and its
\* song plays.
C39_LoopKeepsSongs ==
    (sinkPlaying /\ \A t \in 1..MaxTasks : tasks[t].pc = "free")
      => SameMultiset(Looping(players[1]), world.queue0)

\* C40: a step in which a skip command is accepted leaves the voice client without
\* audio and a play_next of the player newly scheduled, whether the voice client was
\* playing, paused or still waiting for the song play_next is resolving.
C40_SkipEndsPlayback ==
    [][last'.op = "skip"
         => /\ vc'.state = "idle"
            /\ \E t \in 1..MaxTasks :
                 tasks[t].pc = "free" /\ tasks'[t].pc = "start" /\ tasks'[t].p = last'.p]_vars

====
